---------------------------- MODULE Spec2Model ----------------------------
(***************************************************************************)
(* Model of formula_altsearch.searcher: FormulaSearcher and                *)
(* ExhaustiveFormulaSearcher.                                              *)
(*                                                                         *)
(* Number representation.  Amounts of the target composition and dosages   *)
(* are fixed-point numbers counted in steps of half a unit; amounts of the *)
(* database are whole numbers per unit of dosage, so amount * dosage is    *)
(* again counted in steps.  A distance sqrt(s) (delta, variance) is     *)
(* represented exactly by its square s.  A match percentage                *)
(* 100 * (1 - delta / variance) is represented exactly by the pair         *)
(* [n |-> delta^2, d |-> variance^2]; 100.0 is [n |-> 0, d |-> 1].         *)
(***************************************************************************)
EXTENDS Integers, Sequences, FiniteSets, TLC

(***************************************************************************)
(* Bounds of the model                                                     *)
(***************************************************************************)
\* largest dosage, in steps, the minimizer's grid reaches (the code's upper
\* bound is 50 units)
DoseSteps == 3
\* number of fit failures one search run or direct call sequence may see
MaxFailures == 1
\* number of operations (context changes, property reads, direct calls,
\* searches) the caller performs on the instance
MaxCalls == 3
\* largest squared delta and variance passed to calculate_match_ratio
MaxSquare == 4
\* largest number of items of a database file
MaxItems == 3

\* an attribute that is not set is <<>>, one that holds v is <<v>>
Unset == <<>>
Some(v) == <<v>>
Val(o) == o[1]

(***************************************************************************)
(* Generic helpers                                                         *)
(***************************************************************************)
Range(s) == {s[i] : i \in 1..Len(s)}

Min(a, b) == IF a <= b THEN a ELSE b

RECURSIVE SumSeq(_)
SumSeq(s) == IF s = <<>> THEN 0 ELSE Head(s) + SumSeq(Tail(s))

RECURSIVE Filter(_, _)
\* the elements of s at the positions where keep is TRUE, in order
Filter(s, keep) ==
    IF s = <<>> THEN <<>>
    ELSE (IF Head(keep) THEN <<Head(s)>> ELSE <<>>) \o Filter(Tail(s), Tail(keep))

RECURSIVE Flatten(_)
Flatten(ss) == IF ss = <<>> THEN <<>> ELSE Head(ss) \o Flatten(Tail(ss))

(***************************************************************************)
(* The formula database: a dict, i.e. keys in iteration order, each with   *)
(* a composition (a dict herb -> amount)                                   *)
(***************************************************************************)
Herbs == {"A", "B", "C"}

\* one item of the list read from the database file; unit_dosage is 1
\* when the item has none
Item(key, composition, unit_dosage) ==
    [key |-> key, composition |-> composition, unit_dosage |-> unit_dosage]

\* _load_formula_database with the later item of a key replacing the
\* earlier one
RECURSIVE LoadLastWins(_, _)
LoadLastWins(data, rv) ==
    IF data = <<>> THEN rv
    ELSE LET _item == Head(data)
             item == [key |-> _item.key,
                      comp |-> [herb \in DOMAIN _item.composition |->
                                  _item.composition[herb] \div _item.unit_dosage]]
             P(r) == r.key # _item.key
         IN  LoadLastWins(Tail(data), Append(SelectSeq(rv, P), item))

\* the loop of _load_formula_database over data, rv being the dict built
\* so far.  The amounts of the items are multiples of their unit_dosage.
RECURSIVE LoadItems(_, _)
LoadItems(data, rv) ==
    IF data = <<>> THEN rv
    ELSE LET _item == Head(data)
         IN  IF _item.key \in {rv[i].key : i \in 1..Len(rv)}
             THEN LoadItems(Tail(data), rv)
             ELSE LoadItems(Tail(data),
                      Append(rv, [key |-> _item.key,
                                  comp |-> [herb \in DOMAIN _item.composition |->
                                              _item.composition[herb]
                                                  \div _item.unit_dosage]]))

\* _load_formula_database(data)
LoadFormulaDatabase(data) == LoadItems(data, <<>>)

\* the items of the database file
DatabaseItems ==
    << Item("c1", [h \in {"A", "B"} |-> 1], 1),
       Item("c2", [h \in {"A", "C"} |-> 1], 1),
       Item("sA", [h \in {"A"} |-> 1], 1),
       Item("sB", [h \in {"B"} |-> 4], 2),
       Item("sA", [h \in {"C"} |-> 1], 1),
       Item("sB2", [h \in {"B"} |-> 1], 1),
       Item("sC", [h \in {"C"} |-> 3], 3) >>

\* self.database: the dict the caller loaded and passed to __init__
VARIABLE database

Formulas == {database[i].key : i \in 1..Len(database)}

\* position of a formula in the iteration order of the database
DbIndex(formula) == CHOOSE i \in 1..Len(database) : database[i].key = formula

\* self.database[formula]
Composition(formula) == database[DbIndex(formula)].comp

(***************************************************************************)
(* A target composition is a dict as well: a sequence of <<herb, amount>>  *)
(* pairs in insertion order, amounts in steps                              *)
(***************************************************************************)
TKeys(t) == {t[i][1] : i \in 1..Len(t)}

\* target_composition.get(herb, 0)
TGet(t, herb) ==
    IF herb \in TKeys(t)
    THEN (t[CHOOSE i \in 1..Len(t) : t[i][1] = herb])[2]
    ELSE 0


(***************************************************************************)
(* Pure functions of FormulaSearcher                                       *)
(***************************************************************************)
\* get_formula_composition: zip(formulas, dosages) stops at the shorter one
GetFormulaComposition(formulas, dosages) ==
    LET n == Min(Len(formulas), Len(dosages))
        keys == UNION {DOMAIN Composition(formulas[i]) : i \in 1..n}
    IN  [h \in keys |->
            SumSeq([i \in 1..n |->
                IF h \in DOMAIN Composition(formulas[i])
                THEN Composition(formulas[i])[h] * dosages[i]
                ELSE 0])]

\* composition.get(herb, 0) on a combined composition
CGet(composition, herb) ==
    IF herb \in DOMAIN composition THEN composition[herb] ELSE 0

\* calculate_variance, squared
CalculateVariance(t) == SumSeq([i \in 1..Len(t) |-> t[i][2] * t[i][2]])

\* calculate_delta adding the off-target amounts without the penalty factor
CalculateDeltaNoPenalty(x, combo, target, penalty) ==
    LET combined == GetFormulaComposition(combo, x)
        onTarget == SumSeq([i \in 1..Len(target) |->
                        (target[i][2] - CGet(combined, target[i][1]))
                      * (target[i][2] - CGet(combined, target[i][1]))])
        offSet == {h \in DOMAIN combined : h \notin TKeys(target)}
        RECURSIVE OffSum(_)
        OffSum(S) == IF S = {} THEN 0
                     ELSE LET h == CHOOSE y \in S : TRUE
                          IN  combined[h] * combined[h] + OffSum(S \ {h})
    IN  onTarget + OffSum(offSet)

\* calculate_delta adding the differences to the target without squaring
\* them
CalculateDeltaUnsquared(x, combo, target, penalty) ==
    LET combined == GetFormulaComposition(combo, x)
        onTarget == SumSeq([i \in 1..Len(target) |->
                        target[i][2] - CGet(combined, target[i][1])])
        offSet == {h \in DOMAIN combined : h \notin TKeys(target)}
        RECURSIVE OffSum(_)
        OffSum(S) == IF S = {} THEN 0
                     ELSE LET h == CHOOSE y \in S : TRUE
                          IN  (combined[h] * penalty) * (combined[h] * penalty)
                              + OffSum(S \ {h})
    IN  onTarget + OffSum(offSet)

\* calculate_delta, squared
CalculateDelta(x, combo, target, penalty) ==
    LET combined == GetFormulaComposition(combo, x)
        onTarget == SumSeq([i \in 1..Len(target) |->
                        (target[i][2] - CGet(combined, target[i][1]))
                      * (target[i][2] - CGet(combined, target[i][1]))])
        offSet == {h \in DOMAIN combined : h \notin TKeys(target)}
        RECURSIVE OffSum(_)
        OffSum(S) == IF S = {} THEN 0
                     ELSE LET h == CHOOSE y \in S : TRUE
                          IN  (combined[h] * penalty) * (combined[h] * penalty)
                              + OffSum(S \ {h})
    IN  onTarget + OffSum(offSet)

\* the match percentage 100 * (1 - sqrt(n) / sqrt(d))
Pct(n, d) == [n |-> n, d |-> d]
Pct100 == Pct(0, 1)

\* calculate_match_ratio without the test of the variance
CalculateMatchRatioUnguarded(delta, variance) == Pct(delta, variance)

\* calculate_match_ratio(delta, variance) * 100
CalculateMatchRatio(delta, variance) ==
    IF variance # 0 THEN Pct(delta, variance) ELSE Pct100

\* a > b, a = b, a = 100.0, a = 0.0 on match percentages
PctGreater(a, b) == a.n * b.d < b.n * a.d
PctEqual(a, b) == a.n * b.d = b.n * a.d
PctIs100(a) == a.n = 0
PctIs0(a) == a.n = a.d

\* np.round(x, places) of a number counted in steps: places >= 1 keeps
\* every step, places = 0 rounds to whole units, halves to the even one
Round(x, places) ==
    IF places >= 1 \/ x % 2 = 0 THEN x
    ELSE IF (x \div 2) % 2 = 0 THEN x - 1 ELSE x + 1

RoundAll(xs, places) == [i \in 1..Len(xs) |-> Round(xs[i], places)]

(***************************************************************************)
(* State of one searcher instance                                          *)
(***************************************************************************)
VARIABLES
    target_composition, \* self.target_composition
    excludes,           \* self.excludes
    max_cformulas,      \* self.max_cformulas
    max_sformulas,      \* self.max_sformulas
    penalty_factor,     \* self.penalty_factor
    places,             \* self.places
    props,              \* the cached_property entries of self.__dict__:
                        \* variance, cformulas, sformulas, herb_sformulas
    evaluate_cache,     \* self.evaluate_cache: formula set -> result
    pc,                 \* "idle", or the position of find_best_matches
    top_n,              \* argument of the running find_best_matches
    gen,                \* generate_combinations(): combinations still to come
    combo,              \* find_matches: combo of the current outer iteration
    dosages,            \* find_matches: dosages
    match_pct,          \* find_matches: match_pct
    ext,                \* generate_combinations_for_sformulas(): still to come
    combos,             \* find_unique_matches: the seen-set
    emitted,            \* what find_unique_matches has yielded so far
    best,               \* result of the last find_best_matches, or Unset
    ret,                \* what the last direct call returned, or Unset
    \* history variables
    stream,             \* what find_matches has yielded in this run
    fitlog,             \* arguments of find_best_dosages since the cache
                        \* was last emptied, with the outcome
    origin,             \* for each key of evaluate_cache, the context
                        \* under which its result was computed
    calls,              \* number of operations performed so far
    \* the beam searcher
    beam_width_factor,  \* self.beam_width_factor
    beam_multiplier,    \* self.beam_multiplier
    depth,              \* generate_combinations: the depth to expand next
    candidates,         \* generate_combinations: the candidates passed on
    generated,          \* what the current depth has generated so far
    pending,            \* extensions of the current depth still to be fitted
    genlog,             \* history: the (depth, candidates) of every expansion
    cutlog,             \* history: what every depth generated and passed on
    produced,           \* history: what generate_combinations_at_depth has
                        \* produced at the current depth
    yielded             \* what generate_combinations yielded, or Unset

ctxvars == <<database, target_composition, excludes, max_cformulas,
             max_sformulas, penalty_factor, places>>
runvars == <<pc, top_n, gen, combo, dosages, match_pct, ext, combos, emitted,
             stream, best>>
beamvars == <<beam_width_factor, beam_multiplier, depth, candidates, generated,
              pending, genlog, cutlog, produced, yielded>>
vars == <<ctxvars, props, evaluate_cache, runvars, ret, fitlog, origin,
          calls, beamvars>>

\* the attributes a fit reads: the target and the penalty factor in
\* calculate_delta, places for the tolerance of the minimizer
Context == [target |-> target_composition, penalty |-> penalty_factor,
            places |-> places]

(***************************************************************************)
(* The parts of the instance an evaluation reads and writes, threaded      *)
(* through the operators below: self.evaluate_cache, the cached variance,  *)
(* and the history of fits                                                 *)
(***************************************************************************)
Self == [cache |-> evaluate_cache, variance |-> props.variance,
         fitlog |-> fitlog, origin |-> origin]

Put(f, k, v) == [x \in DOMAIN f \cup {k} |-> IF x = k THEN v ELSE f[x]]

Failures(log) == Cardinality({i \in 1..Len(log) : ~log[i].success})

\* find_best_dosages: scipy.optimize.minimize over the bounded dosages,
\* here the grid 0..DoseSteps.  It returns a minimum of calculate_delta
\* (any of them, when there are several) with success, or fails.
FindBestDosages(c) ==
    LET grid == [1..Len(c) -> 0..DoseSteps]
        fun == [x \in grid |->
                   CalculateDelta(x, c, target_composition, penalty_factor)]
        vals == {fun[x] : x \in grid}
        low == CHOOSE v \in vals : \A w \in vals : v <= w
    IN  {[success |-> TRUE, x |-> x, fun |-> low] : x \in {y \in grid : fun[y] = low}}
        \cup {[success |-> FALSE]}

\* the variance property: computed and stored at the first read
ReadVariance(self) ==
    IF self.variance = Unset THEN CalculateVariance(target_composition)
    ELSE Val(self.variance)

\* _calculate_match with target_composition=None, for one outcome of the fit
CalculateMatchUncached(c, o, self) ==
    IF o.success
    THEN [res |-> [ok |-> TRUE, dosages |-> o.x, delta |-> o.fun,
                   match_pct |-> CalculateMatchRatio(o.fun, ReadVariance(self))],
          variance |-> Some(ReadVariance(self))]
    ELSE [res |-> [ok |-> FALSE], variance |-> self.variance]

\* the result calculate_match gives the empty combination
EmptyMatch == [ok |-> TRUE, dosages |-> <<>>, delta |-> 0, match_pct |-> Pct100]

\* calculate_match(combo): the set of [res, self] it can end with;
\* res.ok = FALSE stands for the ValueError raised
\* calculate_match without the lookup in evaluate_cache
CalculateMatchNoLookup(c, self) ==
    LET key == Range(c)
    IN  IF c # <<>>
        THEN {LET m == CalculateMatchUncached(c, o, self)
               IN  [res |-> m.res,
                    self |-> [cache |-> Put(self.cache, key, m.res),
                              variance |-> m.variance,
                              fitlog |-> Append(self.fitlog,
                                                [key |-> key, combo |-> c,
                                                 success |-> o.success]),
                              origin |-> Put(self.origin, key, Context)]] :
              o \in {q \in FindBestDosages(c) :
                        q.success \/ Failures(self.fitlog) < MaxFailures}}
        ELSE {[res |-> EmptyMatch,
               self |-> [self EXCEPT !.cache = Put(self.cache, key, EmptyMatch),
                                     !.origin = Put(self.origin, key, Context)]]}

CalculateMatch(c, self) ==
    LET key == Range(c)
    IN  IF key \in DOMAIN self.cache
        THEN {[res |-> self.cache[key], self |-> self]}
        ELSE IF c # <<>>
        THEN {LET m == CalculateMatchUncached(c, o, self)
               IN  [res |-> m.res,
                    self |-> [cache |-> Put(self.cache, key, m.res),
                              variance |-> m.variance,
                              fitlog |-> Append(self.fitlog,
                                                [key |-> key, combo |-> c,
                                                 success |-> o.success]),
                              origin |-> Put(self.origin, key, Context)]] :
              o \in {q \in FindBestDosages(c) :
                        q.success \/ Failures(self.fitlog) < MaxFailures}}
        ELSE {[res |-> EmptyMatch,
               self |-> [self EXCEPT !.cache = Put(self.cache, key, EmptyMatch),
                                     !.origin = Put(self.origin, key, Context)]]}

\* the removal of formulas with 0 dosage without a new fit
FixZeroNoRefit(fixed_combo, fixed_dosages, pct, self) ==
    LET non_zero_mask == [i \in 1..Len(fixed_dosages) |-> fixed_dosages[i] # 0]
    IN  {[res |-> [ok |-> TRUE, combo |-> Filter(fixed_combo, non_zero_mask),
                   dosages |-> Filter(fixed_dosages, non_zero_mask),
                   match_pct |-> pct],
          self |-> self]}

\* one more iteration of the loop has called calculate_match: the count of
\* these calls in the outcomes (a history field of the result)
OneMoreRefit(outcomes) ==
    {IF o.res.ok THEN [o EXCEPT !.res.refits = @ + 1] ELSE o : o \in outcomes}

RECURSIVE FixZeroWithoutBreak(_, _, _, _)
\* the loop without the break on np.all(non_zero_mask): it ends when an
\* iteration has left fixed_combo as it was
FixZeroWithoutBreak(fixed_combo, fixed_dosages, pct, self) ==
    LET non_zero_mask == [i \in 1..Len(fixed_dosages) |-> fixed_dosages[i] # 0]
        next_combo == Filter(fixed_combo, non_zero_mask)
    IN  UNION {
          IF r.res.ok
          THEN IF next_combo = fixed_combo
               THEN {[res |-> [ok |-> TRUE, combo |-> next_combo,
                               dosages |-> RoundAll(r.res.dosages, places),
                               match_pct |-> r.res.match_pct, refits |-> 1],
                      self |-> r.self]}
               ELSE OneMoreRefit(FixZeroWithoutBreak(
                        next_combo, RoundAll(r.res.dosages, places),
                        r.res.match_pct, r.self))
          ELSE {[res |-> [ok |-> FALSE], self |-> r.self]} :
          r \in CalculateMatch(next_combo, self)}

RECURSIVE FixZero(_, _, _, _)
\* the loop of evaluate_combination that removes formulas with 0 dosage
FixZero(fixed_combo, fixed_dosages, pct, self) ==
    LET non_zero_mask == [i \in 1..Len(fixed_dosages) |-> fixed_dosages[i] # 0]
    IN  IF \A i \in 1..Len(non_zero_mask) : non_zero_mask[i]
        THEN {[res |-> [ok |-> TRUE, combo |-> fixed_combo,
                        dosages |-> fixed_dosages, match_pct |-> pct,
                        refits |-> 0],
               self |-> self]}
        ELSE UNION {
               IF r.res.ok
               THEN OneMoreRefit(FixZero(Filter(fixed_combo, non_zero_mask),
                                         RoundAll(r.res.dosages, places),
                                         r.res.match_pct, r.self))
               ELSE {[res |-> [ok |-> FALSE], self |-> r.self]} :
               r \in CalculateMatch(Filter(fixed_combo, non_zero_mask), self)}

\* evaluate_combination(combo): the set of [res, self] it can end with
EvaluateCombination(c, self) ==
    UNION {
        IF r.res.ok
        THEN FixZero(c, RoundAll(r.res.dosages, places), r.res.match_pct, r.self)
        ELSE {[res |-> [ok |-> FALSE], self |-> r.self]} :
        r \in CalculateMatch(c, self)}

(***************************************************************************)
(* The relevance index                                                     *)
(***************************************************************************)
KeysOf(items) == [i \in 1..Len(items) |-> items[i].key]

\* _compute_related_formulas taking every formula with a component among
\* the keys of the target for related
ComputeRelatedFormulasByKey(t, ex) ==
    LET Related(item) == /\ item.key \notin ex
                         /\ \E herb \in DOMAIN item.comp : herb \in TKeys(t)
        IsC(item) == Related(item) /\ Cardinality(DOMAIN item.comp) > 1
        IsS(item) == Related(item) /\ ~(Cardinality(DOMAIN item.comp) > 1)
        ss == SelectSeq(database, IsS)
        Has(herb) == LET P(item) == herb \in DOMAIN item.comp
                     IN  KeysOf(SelectSeq(ss, P))
    IN  [cformulas |-> KeysOf(SelectSeq(database, IsC)),
         sformulas |-> KeysOf(ss),
         herb_sformulas |-> [herb \in {h \in Herbs : Has(h) # <<>>} |-> Has(herb)]]

\* _compute_related_formulas putting each simple formula at the front of
\* the list of its herb
ComputeRelatedFormulasPrepending(t, ex) ==
    LET Related(item) == /\ item.key \notin ex
                         /\ \E herb \in DOMAIN item.comp : TGet(t, herb) # 0
        IsC(item) == Related(item) /\ Cardinality(DOMAIN item.comp) > 1
        IsS(item) == Related(item) /\ ~(Cardinality(DOMAIN item.comp) > 1)
        ss == SelectSeq(database, IsS)
        Has(herb) == LET P(item) == herb \in DOMAIN item.comp
                         l == KeysOf(SelectSeq(ss, P))
                     IN  [i \in 1..Len(l) |-> l[Len(l) + 1 - i]]
    IN  [cformulas |-> KeysOf(SelectSeq(database, IsC)),
         sformulas |-> KeysOf(ss),
         herb_sformulas |-> [herb \in {h \in Herbs : Has(h) # <<>>} |-> Has(herb)]]

\* _compute_related_formulas: the three dicts it stores
ComputeRelatedFormulas(t, ex) ==
    LET Related(item) == /\ item.key \notin ex
                         /\ \E herb \in DOMAIN item.comp : TGet(t, herb) # 0
        IsC(item) == Related(item) /\ Cardinality(DOMAIN item.comp) > 1
        IsS(item) == Related(item) /\ ~(Cardinality(DOMAIN item.comp) > 1)
        ss == SelectSeq(database, IsS)
        Has(herb) == LET P(item) == herb \in DOMAIN item.comp
                     IN  KeysOf(SelectSeq(ss, P))
    IN  [cformulas |-> KeysOf(SelectSeq(database, IsC)),
         sformulas |-> KeysOf(ss),
         herb_sformulas |-> [herb \in {h \in Herbs : Has(h) # <<>>} |-> Has(herb)]]

\* reading cformulas, sformulas or herb_sformulas: when the entry read is
\* not in __dict__, _compute_related_formulas stores all three
ReadRelated(p) ==
    IF p.cformulas = Unset
    THEN [p EXCEPT !.cformulas = Some(ComputeRelatedFormulas(target_composition, excludes).cformulas),
                   !.sformulas = Some(ComputeRelatedFormulas(target_composition, excludes).sformulas),
                   !.herb_sformulas = Some(ComputeRelatedFormulas(target_composition, excludes).herb_sformulas)]
    ELSE p

(***************************************************************************)
(* The generators                                                          *)
(***************************************************************************)
RECURSIVE Combinations(_, _)
\* itertools.combinations(s, r) as a sequence
Combinations(s, r) ==
    IF r = 0 THEN << <<>> >>
    ELSE IF Len(s) < r THEN <<>>
    ELSE LET with == Combinations(Tail(s), r - 1)
         IN  [i \in 1..Len(with) |-> <<Head(s)>> \o with[i]]
             \o Combinations(Tail(s), r)

\* generate_combinations with the sizes 0..min(len, max) - 1
GenerateCombinationsShort(cformulas, maxc) ==
    Flatten([j \in 1..Min(Len(cformulas), maxc) |->
                Combinations(cformulas, j - 1)])

\* ExhaustiveFormulaSearcher.generate_combinations
GenerateCombinations(cformulas, maxc) ==
    Flatten([j \in 1..(Min(Len(cformulas), maxc) + 1) |->
                Combinations(cformulas, j - 1)])

RECURSIVE SortDesc(_)
\* sorted(items, key=lambda item: -item[1]): stable, largest amount first
SortDesc(items) ==
    IF items = <<>> THEN <<>>
    ELSE LET rest == SortDesc(SubSeq(items, 1, Len(items) - 1))
             x == items[Len(items)]
             Before(y) == y[2] >= x[2]
             After(y) == ~(y[2] >= x[2])
         IN  SelectSeq(rest, Before) \o <<x>> \o SelectSeq(rest, After)

Reverse(s) == [i \in 1..Len(s) |-> s[Len(s) + 1 - i]]

RECURSIVE RunStackNoLimit(_, _, _, _)
\* the loop without the test of n against max_sformulas
RunStackNoLimit(stack, candidate_herbs, hs, maxs) ==
    IF stack = <<>> THEN <<>>
    ELSE LET top == stack[Len(stack)]
             rest == SubSeq(stack, 1, Len(stack) - 1)
         IN  IF top.n >= Len(candidate_herbs)
             THEN (IF top.combo # <<>> THEN <<top.combo>> ELSE <<>>)
                  \o RunStackNoLimit(rest, candidate_herbs, hs, maxs)
             ELSE LET list == Reverse(hs[candidate_herbs[top.n + 1]])
                  IN  RunStackNoLimit(rest \o [i \in 1..Len(list) |->
                                           [n |-> top.n + 1,
                                            combo |-> Append(top.combo, list[i])]],
                               candidate_herbs, hs, maxs)

RECURSIVE RunStackYieldingEmpty(_, _, _, _)
\* the loop without the test that the combination is not empty
RunStackYieldingEmpty(stack, candidate_herbs, hs, maxs) ==
    IF stack = <<>> THEN <<>>
    ELSE LET top == stack[Len(stack)]
             rest == SubSeq(stack, 1, Len(stack) - 1)
         IN  IF top.n >= maxs \/ top.n >= Len(candidate_herbs)
             THEN <<top.combo>>
                  \o RunStackYieldingEmpty(rest, candidate_herbs, hs, maxs)
             ELSE LET list == Reverse(hs[candidate_herbs[top.n + 1]])
                  IN  RunStackYieldingEmpty(rest \o [i \in 1..Len(list) |->
                                           [n |-> top.n + 1,
                                            combo |-> Append(top.combo, list[i])]],
                               candidate_herbs, hs, maxs)

RECURSIVE RunStack(_, _, _, _)
\* the while loop over the stack of generate_combinations_for_sformulas
RunStack(stack, candidate_herbs, hs, maxs) ==
    IF stack = <<>> THEN <<>>
    ELSE LET top == stack[Len(stack)]
             rest == SubSeq(stack, 1, Len(stack) - 1)
         IN  IF top.n >= maxs \/ top.n >= Len(candidate_herbs)
             THEN (IF top.combo # <<>> THEN <<top.combo>> ELSE <<>>)
                  \o RunStack(rest, candidate_herbs, hs, maxs)
             ELSE LET list == Reverse(hs[candidate_herbs[top.n + 1]])
                  IN  RunStack(rest \o [i \in 1..Len(list) |->
                                           [n |-> top.n + 1,
                                            combo |-> Append(top.combo, list[i])]],
                               candidate_herbs, hs, maxs)

\* generate_combinations_for_sformulas taking the components in the order
\* of the target, without the sort by remaining amount
GenerateCombinationsForSformulasUnranked(c, ds, hs) ==
    LET combined_composition == GetFormulaComposition(c, ds)
        remaining_composition ==
            [i \in 1..Len(target_composition) |->
                <<target_composition[i][1],
                  target_composition[i][2]
                    - CGet(combined_composition, target_composition[i][1])>>]
        Candidate(item) == /\ item[1] \in DOMAIN hs
                           /\ Round(item[2], places) > 0
        cands == SelectSeq(remaining_composition, Candidate)
        candidate_herbs == [i \in 1..Len(cands) |-> cands[i][1]]
    IN  RunStack(<<[n |-> 0, combo |-> c]>>, candidate_herbs, hs, max_sformulas)

\* generate_combinations_for_sformulas testing the remaining amount as it
\* is, without rounding it
GenerateCombinationsForSformulasUnrounded(c, ds, hs) ==
    LET combined_composition == GetFormulaComposition(c, ds)
        remaining_composition ==
            [i \in 1..Len(target_composition) |->
                <<target_composition[i][1],
                  target_composition[i][2]
                    - CGet(combined_composition, target_composition[i][1])>>]
        weighted_herbs == SortDesc(remaining_composition)
        Candidate(item) == /\ item[1] \in DOMAIN hs
                           /\ item[2] > 0
        cands == SelectSeq(weighted_herbs, Candidate)
        candidate_herbs == [i \in 1..Len(cands) |-> cands[i][1]]
    IN  RunStack(<<[n |-> 0, combo |-> c]>>, candidate_herbs, hs, max_sformulas)

\* generate_combinations_for_sformulas(combo, dosages) as a sequence,
\* given the herb_sformulas it reads
GenerateCombinationsForSformulas(c, ds, hs) ==
    LET combined_composition == GetFormulaComposition(c, ds)
        remaining_composition ==
            [i \in 1..Len(target_composition) |->
                <<target_composition[i][1],
                  target_composition[i][2]
                    - CGet(combined_composition, target_composition[i][1])>>]
        weighted_herbs == SortDesc(remaining_composition)
        Candidate(item) == /\ item[1] \in DOMAIN hs
                           /\ Round(item[2], places) > 0
        cands == SelectSeq(weighted_herbs, Candidate)
        candidate_herbs == [i \in 1..Len(cands) |-> cands[i][1]]
    IN  RunStack(<<[n |-> 0, combo |-> c]>>, candidate_herbs, hs, max_sformulas)

\* the first n items, without any selection
FirstN(n, items) == SubSeq(items, 1, Min(n, Len(items)))

RECURSIVE NLargest(_, _)
\* heapq.nlargest(n, items, key=lambda x: x[0]): the n largest, largest
\* first, equal keys in the order of items
NLargest(n, items) ==
    IF n <= 0 \/ items = <<>> THEN <<>>
    ELSE LET i == CHOOSE j \in 1..Len(items) :
                    /\ \A k \in 1..Len(items) :
                          ~PctGreater(items[k].match_pct, items[j].match_pct)
                    /\ \A k \in 1..(j - 1) :
                          ~PctEqual(items[k].match_pct, items[j].match_pct)
         IN  <<items[i]>>
             \o NLargest(n - 1, SubSeq(items, 1, i - 1)
                                \o SubSeq(items, i + 1, Len(items)))

(***************************************************************************)
(* Inputs                                                                  *)
(***************************************************************************)
Targets == { << <<"A", 3>>, <<"B", 3>> >>,
             << <<"B", 3>>, <<"A", 1>> >>,
             << <<"A", 1>>, <<"C", 0>> >> }
Excludes == { {}, {"c1"} }
\* <<max_cformulas, max_sformulas>>
Budgets == { <<2, 0>>, <<1, 2>> }
PenaltyFactors == {2}
Places == {0, 1}
TopNs == {2, 3}
\* arguments of the direct calls of calculate_match and evaluate_combination
DirectCombos == { <<>>, <<"c1", "c2">>, <<"sB", "sA">> }

NoProps == [variance |-> Unset, cformulas |-> Unset, sformulas |-> Unset,
            herb_sformulas |-> Unset]
EmptyDict == [k \in {} |-> Unset]
\* a local name of find_matches that is not bound yet
Unbound == [n |-> 0, d |-> 0]
\* no direct call has returned since the context was last set
NoCall == [op |-> "none"]

\* __init__ with a target composition out of targets
InitWith(targets) ==
    /\ database = LoadFormulaDatabase(DatabaseItems)
    /\ target_composition \in targets
    /\ excludes \in Excludes
    /\ \E b \in Budgets : max_cformulas = b[1] /\ max_sformulas = b[2]
    /\ penalty_factor \in PenaltyFactors
    /\ places \in Places
    /\ props = NoProps
    /\ evaluate_cache = EmptyDict
    /\ pc = "idle"
    /\ top_n = 0
    /\ gen = <<>>
    /\ combo = <<>>
    /\ dosages = <<>>
    /\ match_pct = Unbound
    /\ ext = <<>>
    /\ combos = {}
    /\ emitted = <<>>
    /\ best = Unset
    /\ ret = NoCall
    /\ stream = <<>>
    /\ fitlog = <<>>
    /\ origin = EmptyDict
    /\ calls = 0
    /\ beam_width_factor = 0 /\ beam_multiplier = 0
    /\ depth = 0
    /\ candidates = <<>> /\ generated = <<>> /\ pending = <<>>
    /\ genlog = <<>> /\ cutlog = <<>> /\ produced = <<>>
    /\ yielded = Unset

\* __init__
Init == InitWith(Targets)

\* the frames of a finished find_best_matches and the list it returned are
\* gone when the caller goes on to the next operation
Forget ==
    /\ pc' = "idle" /\ top_n' = 0 /\ gen' = <<>> /\ ext' = <<>>
    /\ combo' = <<>> /\ dosages' = <<>> /\ match_pct' = Unbound
    /\ combos' = {} /\ emitted' = <<>> /\ stream' = <<>>
    /\ best' = Unset
    /\ beam_width_factor' = 0 /\ beam_multiplier' = 0
    /\ depth' = 0
    /\ candidates' = <<>> /\ generated' = <<>> /\ pending' = <<>>
    /\ genlog' = <<>> /\ cutlog' = <<>> /\ produced' = <<>>
    /\ yielded' = Unset

(***************************************************************************)
(* The caller changes the context of the instance between two calls        *)
(***************************************************************************)
SetTarget ==
    /\ pc = "idle" /\ calls < MaxCalls
    /\ \E t \in Targets \ {target_composition} : target_composition' = t
    /\ calls' = calls + 1
    /\ ret' = NoCall
    /\ Forget
    /\ UNCHANGED <<database, excludes, max_cformulas, max_sformulas, penalty_factor,
                   places, props, evaluate_cache, fitlog, origin>>

SetExcludes ==
    /\ pc = "idle" /\ calls < MaxCalls
    /\ \E e \in Excludes \ {excludes} : excludes' = e
    /\ calls' = calls + 1
    /\ ret' = NoCall
    /\ Forget
    /\ UNCHANGED <<database, target_composition, max_cformulas, max_sformulas,
                   penalty_factor, places, props, evaluate_cache, fitlog, origin>>

SetPlaces ==
    /\ pc = "idle" /\ calls < MaxCalls
    /\ \E p \in Places \ {places} : places' = p
    /\ calls' = calls + 1
    /\ ret' = NoCall
    /\ Forget
    /\ UNCHANGED <<database, target_composition, excludes, max_cformulas,
                   max_sformulas, penalty_factor, props, evaluate_cache, fitlog, origin>>

(***************************************************************************)
(* Reads of the cached properties                                          *)
(***************************************************************************)
\* self.cformulas, self.sformulas or self.herb_sformulas
ReadRelatedFormulas ==
    /\ pc = "idle" /\ calls < MaxCalls
    /\ props' = ReadRelated(props)
    /\ ret' = [op |-> "related",
               res |-> [cformulas |-> Val(props'.cformulas),
                        sformulas |-> Val(props'.sformulas),
                        herb_sformulas |-> Val(props'.herb_sformulas)]]
    /\ calls' = calls + 1
    /\ Forget
    /\ UNCHANGED <<ctxvars, evaluate_cache, fitlog, origin>>

\* self.variance
ReadVarianceProperty ==
    /\ pc = "idle" /\ calls < MaxCalls
    /\ props' = [props EXCEPT !.variance = Some(ReadVariance(Self))]
    /\ ret' = [op |-> "variance", res |-> Val(props'.variance)]
    /\ calls' = calls + 1
    /\ Forget
    /\ UNCHANGED <<ctxvars, evaluate_cache, fitlog, origin>>

(***************************************************************************)
(* Direct calls                                                            *)
(***************************************************************************)
\* what an evaluation leaves in the instance
Store(self) ==
    /\ evaluate_cache' = self.cache
    /\ props' = [props EXCEPT !.variance = self.variance]
    /\ fitlog' = self.fitlog
    /\ origin' = self.origin

CallCalculateMatch ==
    /\ pc = "idle" /\ calls < MaxCalls
    /\ \E c \in DirectCombos : \E r \in CalculateMatch(c, Self) :
          /\ Store(r.self)
          /\ ret' = [op |-> "calculate_match", arg |-> c, res |-> r.res]
    /\ calls' = calls + 1
    /\ Forget
    /\ UNCHANGED ctxvars

CallEvaluateCombination ==
    /\ pc = "idle" /\ calls < MaxCalls
    /\ \E c \in DirectCombos : \E r \in EvaluateCombination(c, Self) :
          /\ Store(r.self)
          /\ ret' = [op |-> "evaluate_combination", arg |-> c, res |-> r.res]
    /\ calls' = calls + 1
    /\ Forget
    /\ UNCHANGED ctxvars

(***************************************************************************)
(* find_best_matches(top_n): heapq.nlargest draws find_unique_matches,     *)
(* which draws find_matches, one candidate at a time                       *)
(***************************************************************************)
\* the call, up to the first draw from generate_combinations: the head of
\* find_unique_matches reads cformulas and sformulas and empties the cache
FindBestMatches ==
    /\ pc = "idle" /\ calls < MaxCalls
    /\ \E n \in TopNs : top_n' = n
    /\ props' = ReadRelated(props)
    /\ evaluate_cache' = EmptyDict
    /\ combos' = {}
    /\ gen' = GenerateCombinations(Val(props'.cformulas), max_cformulas)
    /\ pc' = "outer"
    /\ combo' = <<>> /\ dosages' = <<>> /\ match_pct' = Unbound
    /\ ext' = <<>>
    /\ emitted' = <<>> /\ stream' = <<>>
    /\ best' = Unset /\ ret' = NoCall
    /\ fitlog' = <<>> /\ origin' = EmptyDict
    /\ calls' = calls + 1
    /\ UNCHANGED <<ctxvars, beamvars>>

\* generate_combinations_for_sformulas writing the remaining amounts into
\* the target composition
TargetMinusCombined(t, c, ds) ==
    [i \in 1..Len(t) |->
        <<t[i][1], t[i][2] - CGet(GetFormulaComposition(c, ds), t[i][1])>>]

\* the target composition after generate_combinations_for_sformulas(c, ds)
\* has computed the remaining amounts: remaining_composition is a dict of
\* its own
TargetAfterRemaining(t, c, ds) == t

\* the outer loop without the continue of its except clause: after a
\* failed fit the inner loop runs with the new combo and the dosages of the
\* iteration before
NextCombinationWithoutContinue ==
    /\ pc = "outer" /\ gen # <<>>
    /\ gen' = Tail(gen)
    /\ IF Head(gen) # <<>>
       THEN \E r \in EvaluateCombination(Head(gen), Self) :
              /\ Store(r.self)
              /\ IF r.res.ok
                 THEN /\ combo' = r.res.combo
                      /\ dosages' = r.res.dosages
                      /\ match_pct' = r.res.match_pct
                      /\ ext' = GenerateCombinationsForSformulas(
                                    r.res.combo, r.res.dosages, Val(props.herb_sformulas))
                      /\ target_composition' = TargetAfterRemaining(
                                    target_composition, r.res.combo, r.res.dosages)
                 ELSE /\ combo' = Head(gen)
                      /\ ext' = GenerateCombinationsForSformulas(
                                    Head(gen), dosages, Val(props.herb_sformulas))
                      /\ UNCHANGED <<dosages, match_pct, target_composition>>
       ELSE /\ combo' = <<>>
            /\ dosages' = <<>>
            /\ ext' = GenerateCombinationsForSformulas(<<>>, <<>>, Val(props.herb_sformulas))
            /\ target_composition' = TargetAfterRemaining(target_composition, <<>>, <<>>)
            /\ UNCHANGED <<match_pct, props, evaluate_cache, fitlog, origin>>
    /\ pc' = IF ext' # <<>> THEN "inner" ELSE "outer"
    /\ UNCHANGED <<database, excludes, max_cformulas, max_sformulas, penalty_factor,
                   places, top_n, combos, emitted, stream, best, ret, calls,
                   beamvars>>

\* find_matches: one iteration of the outer loop, up to the inner loop
NextCombination ==
    /\ pc = "outer" /\ gen # <<>>
    /\ gen' = Tail(gen)
    /\ IF Head(gen) # <<>>
       THEN \E r \in EvaluateCombination(Head(gen), Self) :
              /\ Store(r.self)
              /\ IF r.res.ok
                 THEN /\ combo' = r.res.combo
                      /\ dosages' = r.res.dosages
                      /\ match_pct' = r.res.match_pct
                      /\ ext' = GenerateCombinationsForSformulas(
                                    r.res.combo, r.res.dosages, Val(props.herb_sformulas))
                      /\ target_composition' = TargetAfterRemaining(
                                    target_composition, r.res.combo, r.res.dosages)
                 ELSE /\ ext' = <<>>
                      /\ UNCHANGED <<combo, dosages, match_pct, target_composition>>
       ELSE /\ combo' = <<>>
            /\ dosages' = <<>>
            /\ ext' = GenerateCombinationsForSformulas(<<>>, <<>>, Val(props.herb_sformulas))
            /\ target_composition' = TargetAfterRemaining(target_composition, <<>>, <<>>)
            /\ UNCHANGED <<match_pct, props, evaluate_cache, fitlog, origin>>
    /\ pc' = IF ext' # <<>> THEN "inner" ELSE "outer"
    /\ UNCHANGED <<database, excludes, max_cformulas, max_sformulas, penalty_factor,
                   places, top_n, combos, emitted, stream, best, ret, calls,
                   beamvars>>

\* find_unique_matches with the seen-set keyed by the combination itself
YieldKeyedByTuple(candidate) ==
    /\ stream' = Append(stream, candidate)
    /\ IF candidate.combo \in combos
       THEN UNCHANGED <<combos, emitted>>
       ELSE /\ combos' = combos \cup {candidate.combo}
            /\ emitted' = Append(emitted, candidate)

\* find_unique_matches receives a candidate from find_matches
Yield(candidate) ==
    /\ stream' = Append(stream, candidate)
    /\ IF Range(candidate.combo) \in combos
       THEN UNCHANGED <<combos, emitted>>
       ELSE /\ combos' = combos \cup {Range(candidate.combo)}
            /\ emitted' = Append(emitted, candidate)

\* the inner loop without the except clause: the ValueError leaves
\* find_matches, find_unique_matches and find_best_matches
NextExtensionRaising ==
    /\ pc = "inner" /\ ext # <<>>
    /\ IF Head(ext) # combo
       THEN \E r \in EvaluateCombination(Head(ext), Self) :
              /\ Store(r.self)
              /\ IF r.res.ok
                 THEN /\ dosages' = r.res.dosages
                      /\ match_pct' = r.res.match_pct
                      /\ Yield([match_pct |-> r.res.match_pct, combo |-> r.res.combo,
                                dosages |-> r.res.dosages])
                      /\ ext' = Tail(ext)
                      /\ pc' = IF ext' # <<>> THEN "inner" ELSE "outer"
                      /\ UNCHANGED <<gen, ret>>
                 ELSE /\ pc' = "idle"
                      /\ gen' = <<>> /\ ext' = <<>>
                      /\ ret' = [op |-> "raised"]
                      /\ UNCHANGED <<dosages, match_pct, stream, combos, emitted>>
       ELSE /\ Yield([match_pct |-> match_pct, combo |-> Head(ext),
                      dosages |-> dosages])
            /\ ext' = Tail(ext)
            /\ pc' = IF ext' # <<>> THEN "inner" ELSE "outer"
            /\ UNCHANGED <<dosages, match_pct, props, evaluate_cache, fitlog, origin,
                           gen, ret>>
    /\ UNCHANGED <<ctxvars, top_n, combo, best, calls, beamvars>>

\* find_matches: one iteration of the inner loop
NextExtension ==
    /\ pc = "inner" /\ ext # <<>>
    /\ ext' = Tail(ext)
    /\ IF Head(ext) # combo
       THEN \E r \in EvaluateCombination(Head(ext), Self) :
              /\ Store(r.self)
              /\ IF r.res.ok
                 THEN /\ dosages' = r.res.dosages
                      /\ match_pct' = r.res.match_pct
                      /\ Yield([match_pct |-> r.res.match_pct, combo |-> r.res.combo,
                                dosages |-> r.res.dosages])
                 ELSE UNCHANGED <<dosages, match_pct, stream, combos, emitted>>
       ELSE /\ Yield([match_pct |-> match_pct, combo |-> Head(ext),
                      dosages |-> dosages])
            /\ UNCHANGED <<dosages, match_pct, props, evaluate_cache, fitlog, origin>>
    /\ pc' = IF ext' # <<>> THEN "inner" ELSE "outer"
    /\ UNCHANGED <<ctxvars, top_n, gen, combo, best, ret, calls, beamvars>>

\* generate_combinations is exhausted: heapq.nlargest returns
ReturnBestMatches ==
    /\ pc = "outer" /\ gen = <<>>
    /\ best' = Some(NLargest(top_n, emitted))
    /\ pc' = "idle"
    /\ UNCHANGED <<ctxvars, props, evaluate_cache, top_n, gen, combo, dosages,
                   match_pct, ext, combos, emitted, stream, ret, fitlog, origin, calls,
                   beamvars>>

\* the instance under a caller that sets the context, reads the derived
\* indices and searches
Next ==
    \/ SetTarget
    \/ SetExcludes
    \/ SetPlaces
    \/ ReadRelatedFormulas
    \/ ReadVarianceProperty
    \/ FindBestMatches
    \/ NextCombination
    \/ NextExtension
    \/ ReturnBestMatches

Spec == Init /\ [][Next]_vars

\* the instance under a caller that sets the context, reads the variance
\* and evaluates single combinations
NextCalls ==
    \/ SetTarget
    \/ SetPlaces
    \/ ReadVarianceProperty
    \/ CallCalculateMatch
    \/ CallEvaluateCombination

SpecCalls == Init /\ [][NextCalls]_vars

(***************************************************************************)
(* Calls of the functions that read no cached state                        *)
(***************************************************************************)
\* penalty factors of the caller: the default, a larger one, and none
PenaltyInputs == {0, 2, 4}

\* self.penalty_factor is set by the caller
SetPenaltyFactor ==
    /\ pc = "idle" /\ calls < MaxCalls
    /\ \E p \in PenaltyInputs \ {penalty_factor} : penalty_factor' = p
    /\ calls' = calls + 1
    /\ ret' = NoCall
    /\ Forget
    /\ UNCHANGED <<database, target_composition, excludes, max_cformulas,
                   max_sformulas, places, props, evaluate_cache, fitlog, origin>>

\* arguments of calculate_delta: combinations, and for target_composition
\* None (the target of the instance) or a target of one unit of A
DeltaCombos == {<<"c1">>, <<"sA", "sB2">>, <<"c2", "sB">>}
DeltaTargets == {<<<<"A", 2>>>>}

\* calculate_delta(x, combo, target_composition)
CallCalculateDelta ==
    /\ pc = "idle" /\ calls < MaxCalls
    /\ \E c \in DeltaCombos : \E x \in [1..Len(c) -> 0..DoseSteps] :
       \E t \in {target_composition} \cup DeltaTargets :
          ret' = [op |-> "calculate_delta", x |-> x, combo |-> c, target |-> t,
                  res |-> CalculateDelta(x, c, t, penalty_factor)]
    /\ calls' = calls + 1
    /\ Forget
    /\ UNCHANGED <<ctxvars, props, evaluate_cache, fitlog, origin>>

\* calculate_match_ratio(delta, variance) * 100, delta and variance given
\* by their squares
CallCalculateMatchRatio ==
    /\ pc = "idle" /\ calls < MaxCalls
    /\ \E delta \in 0..MaxSquare : \E variance \in 0..MaxSquare :
          ret' = [op |-> "calculate_match_ratio", delta |-> delta,
                  variance |-> variance,
                  res |-> CalculateMatchRatio(delta, variance)]
    /\ calls' = calls + 1
    /\ Forget
    /\ UNCHANGED <<ctxvars, props, evaluate_cache, fitlog, origin>>

\* the items a database file may hold: two keys, one of them with two
\* bodies
ItemChoices ==
    { Item("k1", [h \in {"A"} |-> 2], 1),
      Item("k1", [h \in {"B"} |-> 4], 2),
      Item("k2", [h \in {"A", "B"} |-> 1], 1) }

DataInputs == UNION {[1..n -> ItemChoices] : n \in 0..MaxItems}

\* _load_formula_database(data)
CallLoadFormulaDatabase ==
    /\ pc = "idle" /\ calls < MaxCalls
    /\ \E data \in DataInputs :
          ret' = [op |-> "load_formula_database", data |-> data,
                  res |-> LoadFormulaDatabase(data)]
    /\ calls' = calls + 1
    /\ Forget
    /\ UNCHANGED <<ctxvars, props, evaluate_cache, fitlog, origin>>

NextPure ==
    \/ SetPenaltyFactor
    \/ CallCalculateDelta
    \/ CallCalculateMatchRatio
    \/ CallLoadFormulaDatabase

\* an instance constructed with the defaults for excludes and places
InitPure == Init /\ excludes = {} /\ max_cformulas = 2 /\ places = 1

SpecPure == InitPure /\ [][NextPure]_vars

(***************************************************************************)
(* Direct calls of the two generators of the exhaustive search             *)
(***************************************************************************)
\* targets of the instances whose generators are called: one of them has a
\* component D that no formula of the database provides
GenTargets == { << <<"A", 3>>, <<"B", 3>> >>,
                << <<"B", 3>>, <<"A", 1>> >>,
                << <<"D", 2>>, <<"A", 1>>, <<"B", 3>> >> }
\* values the caller gives self.cformulas and self.max_cformulas
CformulaInputs == { <<>>, <<"c1">>, <<"c1", "c2">>, <<"c1", "c2", "c3">> }
MaxCformulaInputs == {0, 1, 2, 3}
MaxSformulaInputs == {0, 1, 2}
\* arguments of generate_combinations_for_sformulas
GenCombos == { <<>>, <<"c1">>, <<"c2">> }

\* self.max_sformulas is set by the caller
SetMaxSformulas ==
    /\ pc = "idle" /\ calls < MaxCalls
    /\ \E m \in MaxSformulaInputs \ {max_sformulas} : max_sformulas' = m
    /\ calls' = calls + 1
    /\ ret' = NoCall
    /\ Forget
    /\ UNCHANGED <<database, target_composition, excludes, max_cformulas,
                   penalty_factor, places, props, evaluate_cache, fitlog, origin>>

\* list(generate_combinations()) of an instance whose cformulas and
\* max_cformulas are the given ones
CallGenerateCombinations ==
    /\ pc = "idle" /\ calls < MaxCalls
    /\ \E cf \in CformulaInputs : \E m \in MaxCformulaInputs :
          ret' = [op |-> "generate_combinations", cformulas |-> cf,
                  max_cformulas |-> m, res |-> GenerateCombinations(cf, m)]
    /\ calls' = calls + 1
    /\ Forget
    /\ UNCHANGED <<ctxvars, props, evaluate_cache, fitlog, origin>>

\* list(generate_combinations_for_sformulas(combo, dosages))
CallGenerateCombinationsForSformulas ==
    /\ pc = "idle" /\ calls < MaxCalls
    /\ props' = ReadRelated(props)
    /\ \E c \in GenCombos : \E ds \in [1..Len(c) -> 0..DoseSteps] :
          ret' = [op |-> "generate_combinations_for_sformulas",
                  combo |-> c, dosages |-> ds,
                  res |-> GenerateCombinationsForSformulas(
                              c, ds, Val(props'.herb_sformulas))]
    /\ calls' = calls + 1
    /\ Forget
    /\ UNCHANGED <<ctxvars, evaluate_cache, fitlog, origin>>

NextGen ==
    \/ SetMaxSformulas
    \/ CallGenerateCombinations
    \/ CallGenerateCombinationsForSformulas

InitGen == InitWith(GenTargets)

SpecGen == InitGen /\ [][NextGen]_vars

(***************************************************************************)
(* The beam searcher: generate_combinations grows the combinations one     *)
(* compound formula per depth.  A candidate is (depth, match_pct, combo,   *)
(* dosages).                                                               *)
(***************************************************************************)
\* arguments of the context of a beam search
BeamDepths == {0, 1, 2}
BeamTopNs == {1, 2}
BeamTargets == { << <<"A", 3>>, <<"B", 3>> >>,
                 << <<"A", 4>>, <<"B", 2>>, <<"C", 2>> >> }
BeamWidthFactors == {1, 2}
BeamMultipliers == {0, 1}

\* the candidate generate_combinations starts from
Root == [depth |-> 0, match_pct |-> Pct100, combo |-> <<>>, dosages |-> <<>>]

\* the compound formulas of the index that are not in the combination c
RemainingCandidates(c) ==
    LET NotIn(f) == f \notin Range(c)
    IN  SelectSeq(Val(props.cformulas), NotIn)

\* the quota computed as the whole part of the share plus one
QuotaFloorPlusOne(n) ==
    (top_n * beam_width_factor * beam_multiplier) \div n + 1

\* quota of extensions of one parent when n parents share the pool
Quota(n) ==
    (top_n * beam_width_factor * beam_multiplier + n - 1) \div n

\* the sequences of k different elements of S
Orderings(S, k) ==
    {o \in [1..k -> S] : \A i, j \in 1..k : i # j => o[i] # o[j]}

\* generate_heuristic_candidates(combo): the formulas to extend c with, best
\* first.  The heuristic score decides which formulas and in which order;
\* here any choice of them.  beam_multiplier = 0 takes all that remain.
HeuristicCandidates(c, n) ==
    IF beam_multiplier = 0 THEN {RemainingCandidates(c)}
    ELSE Orderings(Range(RemainingCandidates(c)),
                   Min(Quota(n), Len(RemainingCandidates(c))))

RECURSIVE Extensions(_, _)
\* the combinations to fit at one depth, parent by parent
Extensions(parents, n) ==
    IF parents = <<>> THEN {<<>>}
    ELSE {[i \in 1..Len(h) |-> Append(Head(parents).combo, h[i])] \o rest :
            h \in HeuristicCandidates(Head(parents).combo, n),
            rest \in Extensions(Tail(parents), n)}

\* the candidates passed on to the next depth when nothing is cut
BeamPassAll(d, items) == items

\* the candidates passed on after depth d
BeamPass(d, items) ==
    IF d < max_cformulas - 1
    THEN NLargest(top_n * beam_width_factor, items)
    ELSE items

\* the loop over the depths going on for one more depth
BeamGoesOnOneMore == depth <= max_cformulas

\* the loop over the depths goes on
BeamGoesOn == depth < max_cformulas

exhvars == <<gen, combo, dosages, match_pct, ext, combos, emitted, stream, best, ret>>

\* the context of a beam search is set and generate_combinations is drawn
\* up to its first depth
BeamSearch ==
    /\ pc = "idle" /\ calls < MaxCalls
    /\ target_composition' \in BeamTargets
    /\ \E d \in BeamDepths : max_cformulas' = d
    /\ \E n \in BeamTopNs : top_n' = n
    /\ \E w \in BeamWidthFactors : beam_width_factor' = w
    /\ \E m \in BeamMultipliers : beam_multiplier' = m
    /\ props' = ReadRelated(NoProps)
    /\ evaluate_cache' = EmptyDict
    /\ fitlog' = <<>> /\ origin' = EmptyDict
    /\ depth' = 0
    /\ candidates' = <<Root>>
    /\ generated' = <<>> /\ pending' = <<>>
    /\ genlog' = <<>> /\ cutlog' = <<>> /\ produced' = <<>>
    /\ yielded' = Unset
    /\ pc' = "beam"
    /\ calls' = calls + 1
    /\ UNCHANGED <<database, excludes, max_sformulas, penalty_factor, places,
                   exhvars>>

\* generate_combinations_at_depth(depth, candidates): the candidates are
\* generated again, those of the current depth get their extensions
BeamExpand ==
    /\ pc = "beam" /\ BeamGoesOn
    /\ genlog' = Append(genlog, [depth |-> depth, candidates |-> candidates])
    /\ generated' = candidates
    /\ produced' = candidates
    /\ LET IsParent(item) == item.depth = depth
           parents == SelectSeq(candidates, IsParent)
       IN  pending' \in Extensions(parents, Len(parents))
    /\ pc' = "beam_fit"
    /\ UNCHANGED <<ctxvars, props, evaluate_cache, fitlog, origin, top_n, exhvars,
                   calls, beam_width_factor, beam_multiplier, depth, candidates,
                   cutlog, yielded>>

\* generate_unique_combinations_at_depth with the seen-set keyed by the
\* combination itself
BeamKeepUniqueTuple(items, item) ==
    IF \E i \in 1..Len(items) : items[i].combo = item.combo
    THEN items
    ELSE Append(items, item)

\* generate_unique_combinations_at_depth: a generated candidate is kept
\* unless its formula set was generated before at this depth
BeamKeepUnique(items, item) ==
    IF \E i \in 1..Len(items) : Range(items[i].combo) = Range(item.combo)
    THEN items
    ELSE Append(items, item)

\* one extension is fitted and generated
BeamFit ==
    /\ pc = "beam_fit" /\ pending # <<>>
    /\ pending' = Tail(pending)
    /\ \E r \in EvaluateCombination(Head(pending), Self) :
          /\ Store(r.self)
          /\ LET item == [depth |-> depth + 1, match_pct |-> r.res.match_pct,
                          combo |-> r.res.combo, dosages |-> r.res.dosages]
             IN  IF r.res.ok
                 THEN /\ produced' = Append(produced, item)
                      /\ generated' = BeamKeepUnique(generated, item)
                 ELSE UNCHANGED <<produced, generated>>
    /\ UNCHANGED <<ctxvars, top_n, exhvars, calls, pc, beam_width_factor,
                   beam_multiplier, depth, candidates, genlog, cutlog, yielded>>

\* the depth is complete: the best candidates are passed on
BeamNextDepth ==
    /\ pc = "beam_fit" /\ pending = <<>>
    /\ candidates' = BeamPass(depth, generated)
    /\ cutlog' = Append(cutlog, [generated |-> generated,
                                 passed |-> candidates'])
    /\ depth' = depth + 1
    /\ pc' = "beam"
    /\ UNCHANGED <<ctxvars, props, evaluate_cache, fitlog, origin, top_n, exhvars,
                   calls, beam_width_factor, beam_multiplier, generated, pending,
                   genlog, produced, yielded>>

\* the last depth is done: the candidates are yielded
BeamYield ==
    /\ pc = "beam" /\ ~BeamGoesOn
    /\ yielded' = Some([i \in 1..Len(candidates) |->
                          [match_pct |-> candidates[i].match_pct,
                           combo |-> candidates[i].combo,
                           dosages |-> candidates[i].dosages]])
    /\ pc' = "idle"
    /\ UNCHANGED <<ctxvars, props, evaluate_cache, fitlog, origin, top_n, exhvars,
                   calls, beam_width_factor, beam_multiplier, depth, candidates,
                   generated, pending, genlog, cutlog, produced>>

NextBeam ==
    \/ BeamSearch
    \/ BeamExpand
    \/ BeamFit
    \/ BeamNextDepth
    \/ BeamYield

\* an instance constructed without simple-formula extensions
InitBeam == Init /\ max_sformulas = 0

SpecBeam == InitBeam /\ [][NextBeam]_vars

(***************************************************************************)
(* Claims                                                                  *)
(***************************************************************************)
FormulaSet(candidate) == Range(candidate.combo)

RECURSIVE FirstOfEachSet(_, _)
\* the candidates of s whose formula set is neither in seen nor the set
\* of an earlier candidate of s
FirstOfEachSet(s, seen) ==
    IF s = <<>> THEN <<>>
    ELSE (IF FormulaSet(Head(s)) \in seen THEN <<>> ELSE <<Head(s)>>)
         \o FirstOfEachSet(Tail(s), seen \cup {FormulaSet(Head(s))})

\* C1: find_unique_matches emits at most one candidate per unordered
\* formula set: no two emitted candidates have combinations that are equal
\* as sets, and the emitted candidates are, in stream order, exactly the
\* candidates of the find_matches stream that are the first with their set.
C1_OnePerSet ==
    /\ \A i, j \in 1..Len(emitted) :
          i # j => FormulaSet(emitted[i]) # FormulaSet(emitted[j])
    /\ \A i \in 1..Len(emitted) :
          \E k \in 1..Len(stream) :
             /\ stream[k] = emitted[i]
             /\ \A j \in 1..(k - 1) : FormulaSet(stream[j]) # FormulaSet(stream[k])
    /\ emitted = FirstOfEachSet(stream, {})

\* a run in which find_matches produced the same formula set twice, the
\* second time with the formulas in another order, and the second was dropped
C1_Witness ==
    \E j, k \in 1..Len(stream) :
       /\ j < k
       /\ FormulaSet(stream[j]) = FormulaSet(stream[k])
       /\ stream[j].combo # stream[k].combo
       /\ Len(emitted) < Len(stream)
       /\ Len(emitted) >= 2

\* position in emitted of a candidate (candidates of emitted are distinct)
StreamIndex(candidate) == CHOOSE k \in 1..Len(emitted) : emitted[k] = candidate

\* C2: find_best_matches(top_n) returns at most top_n candidates, all taken
\* from the deduplicated stream, ordered by non-increasing match percentage;
\* no candidate left out has a strictly greater match percentage than one
\* returned, and candidates with equal match percentage keep their stream
\* order.
C2_BestMatches ==
    best # Unset =>
        LET b == Val(best)
        IN  /\ Len(b) <= top_n
            /\ \A i \in 1..Len(b) : b[i] \in Range(emitted)
            /\ \A i, j \in 1..Len(b) : i # j => b[i] # b[j]
            /\ \A i, j \in 1..Len(b) :
                  i < j => ~PctGreater(b[j].match_pct, b[i].match_pct)
            /\ \A k \in 1..Len(emitted) : \A i \in 1..Len(b) :
                  emitted[k] \notin Range(b)
                    => ~PctGreater(emitted[k].match_pct, b[i].match_pct)
            /\ \A i, j \in 1..Len(b) :
                  (i < j /\ PctEqual(b[i].match_pct, b[j].match_pct))
                    => StreamIndex(b[i]) < StreamIndex(b[j])

\* a search that returned top_n candidates out of more, among them two of
\* equal match percentage, and not simply the first top_n of the stream
C2_Witness ==
    /\ best # Unset
    /\ Len(Val(best)) = top_n
    /\ Len(emitted) > top_n
    /\ Val(best) # FirstN(top_n, emitted)
    /\ \E i, j \in 1..Len(Val(best)) :
          i < j /\ PctEqual(Val(best)[i].match_pct, Val(best)[j].match_pct)

\* C3: Whenever the empty combination is scored against a target whose
\* variance is non-zero, the result is dosages (), delta equal to the target
\* variance and match percentage 0, never 100; for a direct
\* calculate_match(()) and when zero-dosage pruning in evaluate_combination
\* reduces a combination to the empty one.
C3_EmptyScoresZero ==
    CalculateVariance(target_composition) # 0 =>
        /\ (ret.op = "calculate_match" /\ ret.arg = <<>>) =>
              /\ ret.res.dosages = <<>>
              /\ ret.res.delta = CalculateVariance(target_composition)
              /\ PctIs0(ret.res.match_pct)
              /\ ~PctIs100(ret.res.match_pct)
        /\ (ret.op = "evaluate_combination" /\ ret.res.ok /\ ret.res.combo = <<>>) =>
              /\ ret.res.dosages = <<>>
              /\ PctIs0(ret.res.match_pct)
              /\ ~PctIs100(ret.res.match_pct)

\* C4: No combination emitted by find_unique_matches or returned by
\* find_best_matches contains a formula identifier that is in the exclusion
\* set.
C4_NoExcluded ==
    /\ \A i \in 1..Len(emitted) : FormulaSet(emitted[i]) \cap excludes = {}
    /\ best # Unset =>
          \A i \in 1..Len(Val(best)) : FormulaSet(Val(best)[i]) \cap excludes = {}

IsCompound(formula) == Cardinality(DOMAIN Composition(formula)) > 1
NumCompound(candidate) == Cardinality({f \in FormulaSet(candidate) : IsCompound(f)})
NumSimple(candidate) == Cardinality({f \in FormulaSet(candidate) : ~IsCompound(f)})

\* C5: Every combination emitted by the exhaustive search contains at most
\* max_cformulas compound formulas and at most max_sformulas simple
\* formulas, whatever zero-dosage pruning removed on the way.
C5_Budget ==
    \A i \in 1..Len(stream) :
        /\ Len(stream[i].combo) = Cardinality(FormulaSet(stream[i]))
        /\ NumCompound(stream[i]) <= max_cformulas
        /\ NumSimple(stream[i]) <= max_sformulas

\* a run with more relevant compound formulas than max_cformulas that
\* emitted a combination of max_cformulas compound formulas and a simple
\* one, and a combination of max_sformulas simple formulas
C5_Witness ==
    /\ props.cformulas # Unset
    /\ Len(Val(props.cformulas)) > max_cformulas
    /\ \E i \in 1..Len(emitted) :
          /\ NumCompound(emitted[i]) = max_cformulas
          /\ NumSimple(emitted[i]) >= 1
    /\ \E j \in 1..Len(emitted) : NumSimple(emitted[j]) = max_sformulas

\* C6: A fit failure on any one candidate never propagates out of
\* find_matches, find_unique_matches or find_best_matches: the step in which
\* a fit fails leaves the search running, emits nothing, drops only the
\* failing candidate from what is left to enumerate, and the call returns
\* only after every generated combination was evaluated.
C6_FailureSkipped ==
    /\ [][Failures(fitlog') > Failures(fitlog) =>
            /\ pc' \in {"outer", "inner"}
            /\ stream' = stream /\ emitted' = emitted /\ best' = best
            /\ \/ pc = "outer" /\ gen' = Tail(gen) /\ ext' = <<>>
               \/ pc = "inner" /\ gen' = gen /\ ext' = Tail(ext)]_vars
    /\ [](best # Unset =>
            LET all == GenerateCombinations(Val(props.cformulas), max_cformulas)
            IN  /\ gen = <<>> /\ ext = <<>>
                /\ \A i \in 1..Len(all) :
                      all[i] = <<>> \/ Range(all[i]) \in DOMAIN evaluate_cache)

\* a returned search in which a fit failed and a combination fitted after
\* the failure was emitted
C6_Witness ==
    /\ best # Unset /\ Val(best) # <<>>
    /\ \E i, j \in 1..Len(fitlog) :
          /\ i < j
          /\ ~fitlog[i].success
          /\ fitlog[j].success
          /\ \E k \in 1..Len(emitted) : FormulaSet(emitted[k]) = fitlog[j].key

RECURSIVE IsSubsequence(_, _)
\* s is t with some elements left out
IsSubsequence(s, t) ==
    IF s = <<>> THEN TRUE
    ELSE IF t = <<>> THEN FALSE
    ELSE IF Head(s) = Head(t) THEN IsSubsequence(Tail(s), Tail(t))
    ELSE IsSubsequence(s, Tail(t))

\* C7: evaluate_combination(combo) returns (fixed_combo, fixed_dosages,
\* match_pct) where fixed_combo is a subsequence of combo in the same
\* relative order, fixed_dosages has one entry per formula of fixed_combo,
\* none of them zero after rounding to places decimals, and whenever a
\* formula was dropped the dosages and the match are those of the fit of
\* fixed_combo.
C7_FixedResult ==
    (ret.op = "evaluate_combination" /\ ret.res.ok) =>
        LET r == ret.res
            key == Range(r.combo)
        IN  /\ IsSubsequence(r.combo, ret.arg)
            /\ Len(r.dosages) = Len(r.combo)
            /\ \A i \in 1..Len(r.dosages) : Round(r.dosages[i], places) # 0
            /\ Len(r.combo) < Len(ret.arg) =>
                  /\ key \in DOMAIN evaluate_cache
                  /\ evaluate_cache[key].ok
                  /\ r.dosages = RoundAll(evaluate_cache[key].dosages, places)
                  /\ r.match_pct = evaluate_cache[key].match_pct

\* an evaluation that dropped a formula and kept another
C7_Witness ==
    /\ ret.op = "evaluate_combination" /\ ret.res.ok
    /\ ret.res.combo # <<>>
    /\ Len(ret.res.combo) < Len(ret.arg)

\* C8: Within one search run find_best_dosages is invoked at most once per
\* unordered formula set; every candidate of the run carries the match of
\* the one fit of its set, which evaluate_cache holds.
C8_OneFitPerSet ==
    /\ \A i, j \in 1..Len(fitlog) : i # j => fitlog[i].key # fitlog[j].key
    /\ \A k \in 1..Len(stream) :
          FormulaSet(stream[k]) # {} =>
              /\ FormulaSet(stream[k]) \in DOMAIN evaluate_cache
              /\ \E i \in 1..Len(fitlog) : fitlog[i].key = FormulaSet(stream[k])

\* a run in which two candidates of one formula set, in different orders,
\* were evaluated
C8_Witness ==
    \E j, k \in 1..Len(stream) :
        /\ j < k
        /\ FormulaSet(stream[j]) = FormulaSet(stream[k])
        /\ stream[j].combo # stream[k].combo
        /\ \E i \in 1..Len(fitlog) : fitlog[i].key = FormulaSet(stream[k])

\* C9: After the context changes on a searcher instance, no calculate_match
\* or evaluate_combination call returns a result that was computed and
\* cached under the previous context.
C9_FittedForCurrentContext ==
    /\ ret.op = "calculate_match" =>
          /\ Range(ret.arg) \in DOMAIN origin
          /\ origin[Range(ret.arg)] = Context
    /\ (ret.op = "evaluate_combination" /\ ret.res.ok) =>
          /\ Range(ret.arg) \in DOMAIN origin
          /\ origin[Range(ret.arg)] = Context
          /\ origin[Range(ret.res.combo)] = Context

\* C10: After the target composition or the exclusion set is changed on an
\* instance whose cformulas, sformulas, herb_sformulas or variance have
\* been accessed, the next access returns the value computed from the new
\* context.
C10_DerivedFromCurrentContext ==
    /\ ret.op = "related" =>
          ret.res = ComputeRelatedFormulas(target_composition, excludes)
    /\ ret.op = "variance" =>
          ret.res = CalculateVariance(target_composition)

\* the formulas of the database that are not excluded and have a component
\* of strictly positive target amount, with more than one component
\* (compound = TRUE) or with a single one (compound = FALSE)
RelevantFormulas(compound) ==
    {f \in Formulas :
        /\ f \notin excludes
        /\ IsCompound(f) = compound
        /\ \E h \in DOMAIN Composition(f) : TGet(target_composition, h) > 0}

\* the step computes the relevance index of the instance
ComputesIndex == props.cformulas = Unset /\ props'.cformulas # Unset

\* C11: cformulas is exactly the set of database formulas that are not
\* excluded, have more than one component and have a component of strictly
\* positive target amount; sformulas is the same with a single component;
\* the two are disjoint, and a formula that overlaps the target only on
\* components of amount zero is in neither.
C11_RelatedFormulas ==
    [][ComputesIndex =>
          LET cf == Range(Val(props'.cformulas))
              sf == Range(Val(props'.sformulas))
          IN  /\ cf = RelevantFormulas(TRUE)
              /\ sf = RelevantFormulas(FALSE)
              /\ Len(Val(props'.cformulas)) = Cardinality(cf)
              /\ Len(Val(props'.sformulas)) = Cardinality(sf)
              /\ cf \cap sf = {}
              /\ \A f \in Formulas :
                    (\A h \in DOMAIN Composition(f) :
                        TGet(target_composition, h) = 0) => f \notin cf \cup sf]_vars

\* the index was computed for a target that has a component of amount
\* zero, a simple formula of that component, and compound and simple
\* formulas in the index
C11_Witness ==
    /\ props.cformulas # Unset
    /\ ret.op = "related"
    /\ ret.res.cformulas # <<>> /\ ret.res.sformulas # <<>>
    /\ ret.res = ComputeRelatedFormulas(target_composition, excludes)
    /\ \E f \in Formulas :
          /\ \E h \in DOMAIN Composition(f) : h \in TKeys(target_composition)
          /\ \A h \in DOMAIN Composition(f) : TGet(target_composition, h) = 0
          /\ f \notin Range(ret.res.cformulas) \cup Range(ret.res.sformulas)

\* C12: herb_sformulas maps a component h to the list, in database
\* iteration order, of all non-excluded relevant simple formulas whose
\* single component is h; its keys are exactly the components that have
\* such a formula, so a component that is not in the target or has target
\* amount zero is not a key.
C12_HerbSformulas ==
    [][ComputesIndex =>
          LET hs == Val(props'.herb_sformulas)
              Of(h) == {f \in RelevantFormulas(FALSE) : DOMAIN Composition(f) = {h}}
          IN  /\ DOMAIN hs = {h \in Herbs : Of(h) # {}}
              /\ \A h \in DOMAIN hs :
                    /\ Range(hs[h]) = Of(h)
                    /\ \A i, j \in 1..Len(hs[h]) :
                          i < j => DbIndex(hs[h][i]) < DbIndex(hs[h][j])
                    /\ TGet(target_composition, h) > 0]_vars

\* the index was computed with a component that has two simple formulas,
\* and a component that has a simple formula and is not a key
C12_Witness ==
    /\ props.herb_sformulas # Unset
    /\ ret.op = "related"
    /\ ret.res = ComputeRelatedFormulas(target_composition, excludes)
    /\ \E h \in DOMAIN ret.res.herb_sformulas : Len(ret.res.herb_sformulas[h]) >= 2
    /\ \E h \in Herbs \ DOMAIN ret.res.herb_sformulas :
          \E f \in Formulas \ excludes : DOMAIN Composition(f) = {h}

RECURSIVE SumOver(_, _)
\* the sum of f over the set S
SumOver(f, S) ==
    IF S = {} THEN 0
    ELSE LET h == CHOOSE y \in S : TRUE IN f[h] + SumOver(f, S \ {h})

\* amount of herb in the dosage-weighted sum of the compositions of c
CombinedAmount(herb, c, x) ==
    SumOver([i \in 1..Len(c) |->
                IF herb \in DOMAIN Composition(c[i])
                THEN Composition(c[i])[herb] * x[i] ELSE 0],
            1..Len(c))

\* the components of the formulas of the combination c
ComponentsOf(c) == UNION {DOMAIN Composition(c[i]) : i \in 1..Len(c)}

\* C13: calculate_delta(x, combo) is the square root of the sum over target
\* components of (target amount - combined amount)^2 plus the sum over
\* components of the combined composition that are not in the target of
\* (penalty_factor * combined amount)^2; one unit of a formula that matches
\* the target exactly and adds one off-target component of amount 1 gives
\* delta 4 (8 steps, squared 64) with penalty_factor 4.
C13_Delta ==
    ret.op = "calculate_delta" =>
        LET t == ret.target
            on == [h \in TKeys(t) |->
                     (TGet(t, h) - CombinedAmount(h, ret.combo, ret.x))
                   * (TGet(t, h) - CombinedAmount(h, ret.combo, ret.x))]
            off == [h \in ComponentsOf(ret.combo) \ TKeys(t) |->
                     (penalty_factor * CombinedAmount(h, ret.combo, ret.x))
                   * (penalty_factor * CombinedAmount(h, ret.combo, ret.x))]
        IN  /\ ret.res = SumOver(on, DOMAIN on) + SumOver(off, DOMAIN off)
            /\ (/\ ret.combo = <<"c1">> /\ ret.x = <<2>>
                /\ t = <<<<"A", 2>>>> /\ penalty_factor = 4) => ret.res = 64

\* the example of the claim
C13_Witness ==
    /\ ret.op = "calculate_delta"
    /\ ret.combo = <<"c1">> /\ ret.x = <<2>>
    /\ ret.target = <<<<"A", 2>>>> /\ penalty_factor = 4
    /\ ret.res = 64

\* the weighted sum equals the target on every target component
OnTargetExact ==
    \A h \in TKeys(ret.target) :
        CombinedAmount(h, ret.combo, ret.x) = TGet(ret.target, h)

\* the weighted sum has no amount of a component that is not in the target
NoOffTarget ==
    \A h \in ComponentsOf(ret.combo) \ TKeys(ret.target) :
        CombinedAmount(h, ret.combo, ret.x) = 0

\* C14 as stated: calculate_delta(x, C) >= 0, and it is 0 if and only if
\* the weighted sum equals the target on every target component and
\* introduces no off-target component.
C14_ZeroIffExact ==
    ret.op = "calculate_delta" =>
        /\ ret.res >= 0
        /\ ret.res = 0 <=> (OnTargetExact /\ NoOffTarget)

\* C14 as amended: calculate_delta(x, C) >= 0, and it is 0 if and only if
\* the weighted sum equals the target on every target component and,
\* unless penalty_factor is 0, introduces no off-target component.
C14_ZeroIffExactOrNoPenalty ==
    ret.op = "calculate_delta" =>
        /\ ret.res >= 0
        /\ ret.res = 0 <=> (OnTargetExact /\ (penalty_factor = 0 \/ NoOffTarget))

\* delta 0 with an off-target component under penalty factor 0, and
\* delta 0 without one
C14_Witness ==
    /\ ret.op = "calculate_delta"
    /\ ret.res = 0
    /\ ~NoOffTarget
    /\ penalty_factor = 0

\* a match percentage below 0
PctNegative(a) == a.n > a.d

\* C15: calculate_match_ratio returns 1 - delta/variance when the variance
\* is non-zero and 1.0 when it is zero; for a non-zero variance the match
\* percentage is 100 exactly when delta = 0, 0 exactly when delta =
\* variance, negative exactly when delta > variance, and strictly
\* decreasing in delta.
C15_MatchRatio ==
    ret.op = "calculate_match_ratio" =>
        /\ ret.variance = 0 => (ret.res.n = 0 /\ ret.res.d = 1)
        /\ ret.variance # 0 =>
              /\ ret.res.n = ret.delta /\ ret.res.d = ret.variance
              /\ PctIs100(ret.res) <=> ret.delta = 0
              /\ PctIs0(ret.res) <=> ret.delta = ret.variance
              /\ PctNegative(ret.res) <=> ret.delta > ret.variance
              /\ \A delta \in 0..MaxSquare :
                    delta > ret.delta =>
                        PctGreater(ret.res, CalculateMatchRatio(delta, ret.variance))

\* a delta larger than a non-zero variance
C15_Witness ==
    /\ ret.op = "calculate_match_ratio"
    /\ ret.variance # 0
    /\ ret.delta > ret.variance
    /\ PctNegative(ret.res)

\* position of the first item of data with the given key
FirstWith(data, key) ==
    CHOOSE i \in 1..Len(data) :
        /\ data[i].key = key
        /\ \A j \in 1..(i - 1) : data[j].key # key

\* C18: Loading a formula database from a list of records keeps, for each
\* key, the composition of the first record with that key and ignores every
\* later record with the same key; the result has exactly one entry per
\* distinct key.
C18_FirstRecordWins ==
    ret.op = "load_formula_database" =>
        LET data == ret.data
            rv == ret.res
        IN  /\ {rv[i].key : i \in 1..Len(rv)} = {data[i].key : i \in 1..Len(data)}
            /\ \A i, j \in 1..Len(rv) : i # j => rv[i].key # rv[j].key
            /\ \A i \in 1..Len(rv) :
                  LET first == data[FirstWith(data, rv[i].key)]
                  IN  /\ DOMAIN rv[i].comp = DOMAIN first.composition
                      /\ \A herb \in DOMAIN rv[i].comp :
                            rv[i].comp[herb] * first.unit_dosage
                                = first.composition[herb]

\* a list with two different records of one key, the first of them not
\* at the head of the list
C18_Witness ==
    /\ ret.op = "load_formula_database"
    /\ \E i, j \in 1..Len(ret.data) :
          /\ 1 < i /\ i < j
          /\ ret.data[i].key = ret.data[j].key
          /\ ret.data[i].composition # ret.data[j].composition
    /\ Len(ret.res) = 2

\* C16: evaluate_combination returns dosages rounded to places decimal
\* places, and the match percentage it returns is the match of exactly
\* those rounded dosages against the target.
C16_MatchOfRoundedDosages ==
    (ret.op = "evaluate_combination" /\ ret.res.ok /\ ret.res.combo # <<>>) =>
        /\ ret.res.dosages = RoundAll(ret.res.dosages, places)
        /\ PctEqual(ret.res.match_pct,
                    CalculateMatchRatio(
                        CalculateDelta(ret.res.dosages, ret.res.combo,
                                       target_composition, penalty_factor),
                        CalculateVariance(target_composition)))

\* C17: No operation of the searcher modifies the caller's formula database
\* or target composition: in every step that is not the caller's own
\* assignment of a new target, both are left as they were; the database
\* is the one that was loaded, after any sequence of operations.
C17_Frame ==
    /\ [][SetTarget \/ (/\ target_composition' = target_composition
                         /\ database' = database)]_vars
    /\ [](database = LoadFormulaDatabase(DatabaseItems))

\* a search that computed the index, fitted compound formulas, computed
\* the remaining amounts of a compound formula of non-zero dosage and
\* returned
C17_Witness ==
    /\ best # Unset /\ Val(best) # <<>>
    /\ props.cformulas # Unset
    /\ fitlog # <<>>
    /\ \E i \in 1..Len(stream) : NumCompound(stream[i]) >= 1

\* a candidate without its depth, as generate_combinations yields it
AsResult(item) ==
    [match_pct |-> item.match_pct, combo |-> item.combo, dosages |-> item.dosages]

\* C19: Beam search generate_combinations starts from the empty combination
\* at depth 0, makes exactly max_cformulas expansion steps, one for each of
\* the depths 0..max_cformulas-1 and none when max_cformulas = 0, each
\* extension adding one unused compound formula to a candidate of the
\* current depth, and yields the empty combination together with the
\* candidates that survived the depths; no yielded combination has more
\* than max_cformulas formulas.
C19_DepthByDepth ==
    /\ Len(genlog) <= max_cformulas
    /\ \A i \in 1..Len(genlog) : genlog[i].depth = i - 1
    /\ genlog # <<>> => genlog[1].candidates = <<Root>>
    /\ pc = "beam_fit" =>
          \A k \in 1..Len(pending) :
              \E i \in 1..Len(candidates) :
                  /\ candidates[i].depth = depth
                  /\ Len(pending[k]) = Len(candidates[i].combo) + 1
                  /\ SubSeq(pending[k], 1, Len(pending[k]) - 1) = candidates[i].combo
                  /\ pending[k][Len(pending[k])] \in Range(Val(props.cformulas))
                  /\ pending[k][Len(pending[k])] \notin Range(candidates[i].combo)
    /\ yielded # Unset =>
          LET y == Val(yielded)
          IN  /\ Len(genlog) = max_cformulas
              /\ \E i \in 1..Len(y) :
                    y[i] = [match_pct |-> Pct100, combo |-> <<>>, dosages |-> <<>>]
              /\ \A i \in 1..Len(y) : Len(y[i].combo) <= max_cformulas
              /\ Len(y) = Len(candidates)
              /\ \A i \in 1..Len(y) : y[i] = AsResult(candidates[i])
              /\ \A i \in 1..Len(candidates) :
                    /\ candidates[i].depth <= max_cformulas
                    /\ Len(candidates[i].combo) <= candidates[i].depth

\* a search of two depths that yielded the empty combination, a combination
\* of one formula and a combination of two
C19_Witness ==
    /\ yielded # Unset
    /\ max_cformulas = 2
    /\ Len(genlog) = 2
    /\ \E i, j, k \in 1..Len(Val(yielded)) :
          /\ Val(yielded)[i].combo = <<>>
          /\ Len(Val(yielded)[j].combo) = 1
          /\ Len(Val(yielded)[k].combo) = 2

\* the step that ends a depth
EndsDepth == pc = "beam_fit" /\ pc' = "beam"

\* C20: Between two depths, beam search passes on at most
\* top_n * beam_width_factor candidates: those of the highest match
\* percentage, equal ones in generation order, among the candidates
\* generated at that depth, the ones generated again included; after the
\* last depth nothing is cut and all the generated candidates are yielded.
C20_BeamWidth ==
    /\ [][EndsDepth =>
            IF depth < max_cformulas - 1
            THEN LET c == candidates'
                     Index(item) == CHOOSE k \in 1..Len(generated) :
                                        generated[k] = item
                 IN  /\ Len(c) = Min(top_n * beam_width_factor, Len(generated))
                     /\ \A i \in 1..Len(c) : c[i] \in Range(generated)
                     /\ \A i, j \in 1..Len(c) : i # j => c[i] # c[j]
                     /\ \A k \in 1..Len(generated) : \A i \in 1..Len(c) :
                           generated[k] \notin Range(c) =>
                             /\ ~PctGreater(generated[k].match_pct, c[i].match_pct)
                             /\ PctEqual(generated[k].match_pct, c[i].match_pct)
                                   => Index(c[i]) < k
            ELSE candidates' = generated]_vars
    /\ [](yielded # Unset /\ max_cformulas > 0 =>
            /\ Len(Val(yielded)) = Len(generated)
            /\ \A i \in 1..Len(generated) :
                  Val(yielded)[i] = AsResult(generated[i]))

\* a search of two depths that has cut the candidates of depth 0 down to
\* top_n * beam_width_factor, leaving out one that equals a kept one in
\* match percentage, and has yielded all the candidates of depth 1, more
\* than top_n * beam_width_factor
C20_Witness ==
    /\ yielded # Unset
    /\ Len(cutlog) = 2
    /\ Len(cutlog[1].passed) = top_n * beam_width_factor
    /\ \E k \in 1..Len(cutlog[1].generated) :
          /\ cutlog[1].generated[k] \notin Range(cutlog[1].passed)
          /\ \E i \in 1..Len(cutlog[1].passed) :
                PctEqual(cutlog[1].generated[k].match_pct,
                         cutlog[1].passed[i].match_pct)
    /\ Len(cutlog[2].generated) > top_n * beam_width_factor
    /\ Len(Val(yielded)) = Len(cutlog[2].generated)

\* the step generate_combinations_at_depth(depth, candidates)
Expands == pc = "beam" /\ pc' = "beam_fit"

\* the candidates of the depth being expanded
ParentsAtDepth == {i \in 1..Len(candidates) : candidates[i].depth = depth}

\* the extensions of the combination c among the combinations to fit next
ExtensionsOf(c) ==
    {k \in 1..Len(pending') :
        /\ Len(pending'[k]) = Len(c) + 1
        /\ SubSeq(pending'[k], 1, Len(c)) = c}

\* the least q with q * n >= top_n * beam_width_factor * beam_multiplier
CeilShare(n) ==
    CHOOSE q \in 0..(top_n * beam_width_factor * beam_multiplier) :
        /\ q * n >= top_n * beam_width_factor * beam_multiplier
        /\ (q - 1) * n < top_n * beam_width_factor * beam_multiplier

\* the candidates are generated again unchanged, and only the candidates of
\* the current depth are extended, each with compound formulas of the index
\* that it does not hold
OnlyParentsExtended ==
    /\ generated' = candidates
    /\ \A k \in 1..Len(pending') :
          \E i \in ParentsAtDepth :
              /\ k \in ExtensionsOf(candidates[i].combo)
              /\ pending'[k][Len(pending'[k])] \in Range(Val(props.cformulas))
              /\ pending'[k][Len(pending'[k])] \notin Range(candidates[i].combo)
    /\ \A k, l \in 1..Len(pending') : k # l => pending'[k] # pending'[l]

FirstProduced(item) ==
    CHOOSE i \in 1..Len(produced) :
        /\ Range(produced[i].combo) = Range(item.combo)
        /\ \A j \in 1..(i - 1) : Range(produced[j].combo) # Range(item.combo)

\* C22: generate_unique_combinations_at_depth drops every generated
\* candidate whose formula set, whatever the order of the formulas, was
\* produced before at that depth; it keeps the first candidate of each set
\* and the kept candidates stay in the order of their generation.
C22_UniqueAtDepth ==
    pc = "beam_fit" =>
        /\ \A i, j \in 1..Len(generated) :
              i # j => Range(generated[i].combo) # Range(generated[j].combo)
        /\ \A i \in 1..Len(produced) :
              \E j \in 1..Len(generated) :
                  Range(generated[j].combo) = Range(produced[i].combo)
        /\ \A j \in 1..Len(generated) :
              generated[j] = produced[FirstProduced(generated[j])]
        /\ \A i, j \in 1..Len(generated) :
              i < j => FirstProduced(generated[i]) < FirstProduced(generated[j])

\* a depth at which two parents have produced the same two formulas in
\* different orders, and only the first of the two candidates is kept
C22_Witness ==
    /\ pc = "beam_fit"
    /\ \E i, j \in 1..Len(produced) :
          /\ i < j
          /\ Len(produced[i].combo) = 2
          /\ Range(produced[i].combo) = Range(produced[j].combo)
          /\ produced[i].combo # produced[j].combo
          /\ produced[i] \in Range(generated)
          /\ produced[j] \notin Range(generated)

\* the position of the formula f in the list cf
PositionIn(cf, f) == CHOOSE i \in 1..Len(cf) : cf[i] = f

\* the combination a comes before b of the same size in the lexicographic
\* order of the positions in cf
LexBefore(cf, a, b) ==
    \E k \in 1..Len(a) :
        /\ \A i \in 1..(k - 1) : a[i] = b[i]
        /\ PositionIn(cf, a[k]) < PositionIn(cf, b[k])

\* C23: generate_combinations of the exhaustive searcher yields every
\* subset of cformulas of size 0..min(max_cformulas, |cformulas|) exactly
\* once, each as a tuple in the order of cformulas, the sizes increasing from
\* the empty tuple and the tuples of one size in the lexicographic order of
\* their positions; with max_cformulas = 0 it yields only ().
C23_AllSubsetsInOrder ==
    ret.op = "generate_combinations" =>
        LET cf == ret.cformulas
            res == ret.res
            m == IF ret.max_cformulas <= Len(cf) THEN ret.max_cformulas ELSE Len(cf)
        IN  /\ \A S \in SUBSET Range(cf) :
                  Cardinality(S) <= m =>
                      Cardinality({i \in 1..Len(res) : Range(res[i]) = S}) = 1
            /\ \A i \in 1..Len(res) :
                  /\ Len(res[i]) <= m
                  /\ Range(res[i]) \subseteq Range(cf)
                  /\ \A k \in 1..(Len(res[i]) - 1) :
                        PositionIn(cf, res[i][k]) < PositionIn(cf, res[i][k + 1])
            /\ \A i, j \in 1..Len(res) :
                  i < j => \/ Len(res[i]) < Len(res[j])
                           \/ /\ Len(res[i]) = Len(res[j])
                              /\ LexBefore(cf, res[i], res[j])
            /\ res # <<>> /\ res[1] = <<>>
            /\ ret.max_cformulas = 0 => res = << <<>> >>

\* a call with three compound formulas and max_cformulas = 2 that yielded
\* the seven combinations of at most two of them
C23_Witness ==
    /\ ret.op = "generate_combinations"
    /\ Len(ret.cformulas) = 3
    /\ ret.max_cformulas = 2
    /\ Len(ret.res) = 7
    /\ ret.res[5] = <<"c1", "c2">>
    /\ ret.res[7] = <<"c2", "c3">>

\* a call of generate_combinations_for_sformulas has returned
GenReturned == ret.op = "generate_combinations_for_sformulas"

\* the amount of the target component h that the combination of the call
\* leaves open
RemainingAmount(h) ==
    TGet(target_composition, h) - CombinedAmount(h, ret.combo, ret.dosages)

\* the target components that are candidates for an extension: they have a
\* simple formula in the index and a remaining amount that is positive
\* after rounding
CandidateComponents ==
    {h \in TKeys(target_composition) :
        /\ h \in DOMAIN Val(props.herb_sformulas)
        /\ Round(RemainingAmount(h), places) > 0}

\* the number of components that get a simple formula
ExtensionSize ==
    IF max_sformulas <= Cardinality(CandidateComponents)
    THEN max_sformulas ELSE Cardinality(CandidateComponents)

\* the candidate components in an order of descending remaining amount
Rankings ==
    {o \in [1..Cardinality(CandidateComponents) -> CandidateComponents] :
        /\ \A i, j \in DOMAIN o : i # j => o[i] # o[j]
        /\ \A i, j \in DOMAIN o :
              i < j => RemainingAmount(o[i]) >= RemainingAmount(o[j])}

\* the extensions of the combination of the call along the ranking o: one
\* simple formula of each of the first ExtensionSize components
ProductAlong(o) ==
    {ret.combo \o e :
        e \in {x \in [1..ExtensionSize -> Range(Val(props.sformulas))] :
                  \A k \in 1..ExtensionSize :
                      x[k] \in Range(Val(props.herb_sformulas)[o[k]])}}

\* a comes before b in the lexicographic order of the herb_sformulas lists
\* of the components of o
LexAlong(o, a, b) ==
    \E k \in 1..ExtensionSize :
        LET list == Val(props.herb_sformulas)[o[k]]
            n == Len(ret.combo)
        IN  /\ \A i \in 1..(k - 1) : a[n + i] = b[n + i]
            /\ PositionIn(list, a[n + k]) < PositionIn(list, b[n + k])

\* the result of the call is the Cartesian product along o, each element
\* once, in lexicographic order
YieldsProductAlong(o) ==
    /\ Range(ret.res) = ProductAlong(o)
    /\ Len(ret.res) = Cardinality(ProductAlong(o))
    /\ \A i, j \in 1..Len(ret.res) : i < j => LexAlong(o, ret.res[i], ret.res[j])

\* C24 as stated: generate_combinations_for_sformulas(combo, dosages) ranks
\* the candidate components by descending remaining amount, takes the first
\* m = min(max_sformulas, number of candidate components) and yields
\* exactly the combinations combo + (s1, ..., sm), si out of herb_sformulas
\* of the i-th component: the full Cartesian product, each element once, in
\* lexicographic order of the herb_sformulas lists.
C24_CartesianProduct ==
    GenReturned => \E o \in Rankings : YieldsProductAlong(o)

\* C24 amended: the same, except that nothing is yielded when combo is
\* empty and m = 0.
C24_CartesianProductNotEmpty ==
    GenReturned =>
        IF ret.combo = <<>> /\ ExtensionSize = 0
        THEN ret.res = <<>>
        ELSE \E o \in Rankings : YieldsProductAlong(o)

\* a call whose combination has changed the ranking of the components: B
\* comes before A although the target lists A first, B has two simple
\* formulas, and two extensions are yielded
C24_Witness ==
    /\ GenReturned
    /\ ret.combo # <<>>
    /\ target_composition[1][1] = "A"
    /\ RemainingAmount("B") > RemainingAmount("A")
    /\ {"A", "B"} \subseteq CandidateComponents
    /\ max_sformulas = 2
    /\ Len(ret.res) = 2
    /\ ret.res[1] = ret.combo \o <<"sB", "sA">>
    /\ ret.res[2] = ret.combo \o <<"sB2", "sA">>

\* C25: a target component is a candidate for an extension only if it has
\* a simple formula in the index and its remaining amount, rounded to
\* places decimals, is strictly positive; the other components are skipped
\* and do not use up max_sformulas: every yielded combination extends combo
\* by min(max_sformulas, number of candidates) simple formulas, each of a
\* different candidate component.
C25_CandidatesOnly ==
    GenReturned =>
        /\ ret.combo # <<>> \/ ExtensionSize > 0 => ret.res # <<>>
        /\ \A i \in 1..Len(ret.res) :
              /\ Len(ret.res[i]) = Len(ret.combo) + ExtensionSize
              /\ SubSeq(ret.res[i], 1, Len(ret.combo)) = ret.combo
              /\ \E o \in Rankings :
                    \A k \in 1..ExtensionSize :
                        ret.res[i][Len(ret.combo) + k]
                            \in Range(Val(props.herb_sformulas)[o[k]])

\* a call with max_sformulas = 1 in which the component of the largest
\* remaining amount has no simple formula, another is over-supplied or
\* rounds to zero, and the one extension goes to a third component
C25_Witness ==
    /\ GenReturned
    /\ max_sformulas = 1
    /\ \E h \in TKeys(target_composition) :
          /\ h \notin DOMAIN Val(props.herb_sformulas)
          /\ \A g \in TKeys(target_composition) : RemainingAmount(h) >= RemainingAmount(g)
    /\ \E h \in TKeys(target_composition) :
          /\ h \in DOMAIN Val(props.herb_sformulas)
          /\ Round(RemainingAmount(h), places) <= 0
    /\ Cardinality(CandidateComponents) = 1
    /\ ret.res # <<>>
    /\ \A i \in 1..Len(ret.res) : Len(ret.res[i]) = Len(ret.combo) + 1

\* C26: generate_combinations_for_sformulas never yields the empty
\* combination; when max_sformulas = 0 or there is no candidate component
\* it yields the input combination exactly once if that is not empty, and
\* nothing if it is empty.
C26_NeverEmpty ==
    GenReturned =>
        /\ \A i \in 1..Len(ret.res) : ret.res[i] # <<>>
        /\ (max_sformulas = 0 \/ CandidateComponents = {}) =>
              ret.res = IF ret.combo # <<>> THEN <<ret.combo>> ELSE <<>>

\* a call with the empty combination and max_sformulas = 0, although the
\* target has candidate components, that yielded nothing
C26_Witness ==
    /\ GenReturned
    /\ ret.combo = <<>>
    /\ max_sformulas = 0
    /\ CandidateComponents # {}
    /\ ret.res = <<>>

\* C27: the zero-dosage pruning loop of evaluate_combination terminates:
\* each iteration either stops because no remaining dosage rounds to zero
\* or removes at least one formula, so it ends after at most len(combo)
\* re-fits, also when pruning leaves the empty combination.
C27_PruningTerminates ==
    (ret.op = "evaluate_combination" /\ ret.res.ok) =>
        /\ ret.res.refits <= Len(ret.arg)
        /\ Len(ret.res.combo) + ret.res.refits <= Len(ret.arg)
        /\ ret.res.refits = 0 <=> ret.res.combo = ret.arg
        /\ \A i \in 1..Len(ret.res.dosages) : ret.res.dosages[i] # 0

\* an evaluation of two formulas that re-fitted twice and was left with the
\* empty combination
C27_Witness ==
    /\ ret.op = "evaluate_combination" /\ ret.res.ok
    /\ Len(ret.arg) = 2
    /\ ret.res.refits = 2
    /\ ret.res.combo = <<>>

\* the fit of the formula set of a candidate in this run
FitOf(candidate) ==
    fitlog[CHOOSE i \in 1..Len(fitlog) : fitlog[i].key = FormulaSet(candidate)]

\* the dosages of the candidate are, formula by formula, the rounded
\* dosages its fit has assigned
DosagesFollowCombo(candidate) ==
    /\ Len(candidate.dosages) = Len(candidate.combo)
    /\ \A i \in 1..Len(candidate.combo) :
          candidate.dosages[i] =
              Round(evaluate_cache[FormulaSet(candidate)].dosages[
                        PositionIn(FitOf(candidate).combo, candidate.combo[i])],
                    places)

\* C28: for every (combo, dosages) pair that evaluate_combination returns
\* to the search and find_matches yields, dosages[i] is the dosage the fit
\* assigned to the formula combo[i], also when the result comes from
\* evaluate_cache and the entry was stored for the same formulas listed in
\* another order.
C28_DosagesFollowCombo ==
    \A k \in 1..Len(stream) :
        FormulaSet(stream[k]) # {} => DosagesFollowCombo(stream[k])

\* the candidate has a formula, one dosage for each formula, none of them 0
WellFormed(candidate) ==
    /\ candidate.combo # <<>>
    /\ Len(candidate.dosages) = Len(candidate.combo)
    /\ \A i \in 1..Len(candidate.dosages) : candidate.dosages[i] # 0

\* C29: every candidate emitted by the exhaustive search (find_matches,
\* find_unique_matches, find_best_matches) has a non-empty combination, with
\* exactly one reported dosage per formula and every reported dosage
\* non-zero.
C29_NonEmptyCandidates ==
    /\ \A k \in 1..Len(stream) : WellFormed(stream[k])
    /\ \A k \in 1..Len(emitted) : WellFormed(emitted[k])
    /\ best # Unset => \A k \in 1..Len(Val(best)) : WellFormed(Val(best)[k])

\* a fit has failed in this step
FitFails == Failures(fitlog') > Failures(fitlog)

\* C30: in find_matches, when the fit of a compound subset fails, none of
\* the extensions of that subset is generated, evaluated or emitted: the
\* outer loop goes on to the next subset; when the fit of one extension
\* fails, the other extensions of the same subset stay to be evaluated, and
\* each of them is yielded unless a fit of its own fails.
C30_FailureScope ==
    /\ [][(pc = "outer" /\ FitFails) =>
            /\ ext' = <<>> /\ pc' = "outer"
            /\ gen' = Tail(gen)
            /\ stream' = stream /\ emitted' = emitted
            /\ combo' = combo /\ dosages' = dosages]_vars
    /\ [][(pc = "inner" /\ FitFails) =>
            /\ ext' = Tail(ext) /\ gen' = gen /\ combo' = combo
            /\ pc' = IF ext' # <<>> THEN "inner" ELSE "outer"
            /\ stream' = stream /\ emitted' = emitted]_vars
    /\ [][pc = "inner" =>
            /\ ext' = Tail(ext) /\ gen' = gen /\ combo' = combo
            /\ \/ Len(stream') = Len(stream) + 1
               \/ /\ stream' = stream
                  /\ \E key \in DOMAIN evaluate_cache' :
                        /\ key \subseteq Range(Head(ext))
                        /\ ~evaluate_cache'[key].ok]_vars
    /\ [](pc = "inner" => ext # <<>>)

\* the fit of the compound subset (c1) has just failed after the empty
\* subset had its extensions yielded: no extension of (c1) is waiting and
\* the outer loop has (c2) left
C30_Witness ==
    /\ pc = "outer"
    /\ fitlog # <<>>
    /\ ~fitlog[Len(fitlog)].success
    /\ fitlog[Len(fitlog)].combo = <<"c1">>
    /\ ext = <<>>
    /\ gen = << <<"c2">> >>
    /\ stream # <<>>
    /\ max_sformulas = 2

====
